---- MODULE Spec2Model ----
(***************************************************************************)
(* The HTCL lexer (src/lexer.ts): tokenize(source) scans a buffer of       *)
(* characters from the left, removing what it consumes, and appends the    *)
(* tokens it recognises to an output array.                                *)
(*                                                                         *)
(* A JavaScript string is modelled two ways, each where the code uses it:  *)
(* the buffer src = source.split("") is a sequence of one-character        *)
(* strings, and a lexeme (token.value, word, str) is a TLA+ string built   *)
(* by concatenation, as `word += src[0]` builds it.                        *)
(***************************************************************************)
EXTENDS Integers, Sequences, FiniteSets, TLC

VARIABLES
    source,   \* the argument of tokenize, as source.split("") sees it
    src,      \* the remaining buffer (lexer.ts:75), shifted from the front
    tokens,   \* the output array (lexer.ts:74)
    spans,    \* history: for tokens[i], the branch that pushed it and the
              \* source positions of its lexeme
    pc        \* "scan": at the loop test of lexer.ts:91; "done": returned

vars == <<source, src, tokens, spans, pc>>

----------------------------------------------------------------------------
(* Bounds of the model *)

\* an input is the concatenation of at most MaxPieces pieces of the Lexicon,
\* or a reserved word between two margins
MaxPieces == 2

----------------------------------------------------------------------------
(* The token taxonomy, lexer.ts:1-60 *)

\* enum TokenType: the enumerant names and their numeric values
TokenType ==
    [ Number |-> 0, Name |-> 1, StringLiteral |-> 2, Identifier |-> 3,
      OpenParen |-> 4, CloseParen |-> 5, BinaryOperator |-> 6,
      OpenBracket |-> 7, CloseBracket |-> 8, EndBracket |-> 9, Equals |-> 10,
      Let |-> 11, Const |-> 12, Args |-> 13, Arg |-> 14, Return |-> 15,
      Counter |-> 16, Type |-> 17, SelfClosingTag |-> 18, While |-> 19,
      For |-> 20, If |-> 21, ElseIf |-> 22, Else |-> 23, From |-> 24,
      To |-> 25, Condition |-> 26, OpenBrace |-> 27, CloseBrace |-> 28,
      Comment |-> 29, StartTemplateString |-> 30, EndTemplateString |-> 31,
      StartInterpolation |-> 32, EndInterpolation |-> 33 ]

\* interface Token
Token(value, type) == [value |-> value, type |-> type]

\* a table from which the entry "to" was left out
specialIdentifiersWithoutTo ==
    << "let", "const", "args", "arg", "return", "counter", "name", "type",
       "while", "for", "if", "elseIf", "else", "from", "condition" >>

\* the special-identifier table, in the order of the source
specialIdentifiers ==
    << "let", "const", "args", "arg", "return", "counter", "name", "type",
       "while", "for", "if", "elseIf", "else", "from", "to", "condition" >>

\* Array.prototype.includes
ArrayIncludes(arr, x) == \E i \in 1..Len(arr) : arr[i] = x

----------------------------------------------------------------------------
(* JavaScript primitives the lexer relies on *)

\* the value of an out-of-range array read such as src[0] on an empty array
Undefined == "undefined"

\* a JavaScript number: NaN, or a value
NaN == [isNaN |-> TRUE, value |-> 0]
Num(n) == [isNaN |-> FALSE, value |-> n]
isNaN(x) == x.isNaN

\* src[i], with JavaScript's 0-based index
At(s, i) == IF i < Len(s) THEN s[i + 1] ELSE Undefined

\* s.join(""): the string a sequence of characters spells
RECURSIVE Join(_)
Join(s) == IF s = <<>> THEN "" ELSE Head(s) \o Join(Tail(s))

\* Array.prototype.shift on the buffer: a no-op on an empty array
Shift(s) == IF s = <<>> THEN s ELSE Tail(s)

LowerCase ==
    << "a", "b", "c", "d", "e", "f", "g", "h", "i", "j", "k", "l", "m",
       "n", "o", "p", "q", "r", "s", "t", "u", "v", "w", "x", "y", "z" >>

UpperCase ==
    << "A", "B", "C", "D", "E", "F", "G", "H", "I", "J", "K", "L", "M",
       "N", "O", "P", "Q", "R", "S", "T", "U", "V", "W", "X", "Y", "Z" >>

\* String.prototype.toUpperCase on one character
ToUpperCase(c) ==
    IF \E i \in 1..26 : LowerCase[i] = c
    THEN UpperCase[CHOOSE i \in 1..26 : LowerCase[i] = c]
    ELSE c

\* String.prototype.toLowerCase on one character
ToLowerCase(c) ==
    IF \E i \in 1..26 : UpperCase[i] = c
    THEN LowerCase[CHOOSE i \in 1..26 : UpperCase[i] = c]
    ELSE c

\* the characters the regular expression \s matches
WhiteSpace == {" ", "\t", "\n", "\r"}

DecimalDigits == <<"0", "1", "2", "3", "4", "5", "6", "7", "8", "9">>

\* parseInt(c) of one character: its digit value, else NaN
ParseInt(c) ==
    IF \E i \in 1..10 : DecimalDigits[i] = c
    THEN Num((CHOOSE i \in 1..10 : DecimalDigits[i] = c) - 1)
    ELSE NaN

\* whether every character of w is a digit of the radix (a non-empty w)
DigitsOf(w, radixDigits) ==
    /\ Len(w) > 0
    /\ \A i \in 1..Len(w) : ToLowerCase(w[i]) \in radixDigits

DecDigitSet == {DecimalDigits[i] : i \in 1..10}
HexDigitSet == DecDigitSet \cup {"a", "b", "c", "d", "e", "f"}
OctDigitSet == {"0", "1", "2", "3", "4", "5", "6", "7"}
BinDigitSet == {"0", "1"}

\* w without its leading and trailing white space
RECURSIVE Trim(_)
Trim(w) ==
    IF w = <<>> THEN w
    ELSE IF Head(w) \in WhiteSpace THEN Trim(Tail(w))
    ELSE IF w[Len(w)] \in WhiteSpace THEN Trim(SubSeq(w, 1, Len(w) - 1))
    ELSE w

\* digits, with an optional fraction: 12  12.  12.5  .5
StrMantissa(m) ==
    \/ DigitsOf(m, DecDigitSet)
    \/ \E k \in 1..Len(m) :
          /\ m[k] = "."
          /\ Len(m) > 1
          /\ k > 1 => DigitsOf(SubSeq(m, 1, k - 1), DecDigitSet)
          /\ k < Len(m) => DigitsOf(SubSeq(m, k + 1, Len(m)), DecDigitSet)

\* nothing, or e / E, an optional sign and digits
StrExponent(e) ==
    \/ e = <<>>
    \/ /\ Len(e) >= 2
       /\ e[1] \in {"e", "E"}
       /\ \/ DigitsOf(Tail(e), DecDigitSet)
          \/ /\ e[2] \in {"+", "-"}
             /\ DigitsOf(SubSeq(e, 3, Len(e)), DecDigitSet)

Infinity == <<"I", "n", "f", "i", "n", "i", "t", "y">>

StrUnsignedDecimal(w) ==
    \/ w = Infinity
    \/ \E k \in 1..Len(w) :
          /\ StrMantissa(SubSeq(w, 1, k))
          /\ StrExponent(SubSeq(w, k + 1, Len(w)))

StrDecimalLiteral(w) ==
    \/ StrUnsignedDecimal(w)
    \/ /\ Len(w) > 1
       /\ w[1] \in {"+", "-"}
       /\ StrUnsignedDecimal(Tail(w))

NonDecimalIntegerLiteral(w) ==
    /\ Len(w) > 2
    /\ w[1] = "0"
    /\ \/ w[2] \in {"x", "X"} /\ DigitsOf(SubSeq(w, 3, Len(w)), HexDigitSet)
       \/ w[2] \in {"o", "O"} /\ DigitsOf(SubSeq(w, 3, Len(w)), OctDigitSet)
       \/ w[2] \in {"b", "B"} /\ DigitsOf(SubSeq(w, 3, Len(w)), BinDigitSet)

\* the digits-only test a hand-written lexer would use in place of Number()
WordIsNaNDigitsOnly(w) == ~DigitsOf(w, DecDigitSet)

\* isNaN(Number(word)), for the word the characters w spell: Number() takes a
\* decimal literal with optional sign, fraction and exponent, Infinity, a
\* 0x / 0o / 0b literal, or blank (which is 0); anything else is NaN
WordIsNaN(w) ==
    LET t == Trim(w)
    IN  ~ \/ t = <<>>
          \/ StrDecimalLiteral(t)
          \/ NonDecimalIntegerLiteral(t)

----------------------------------------------------------------------------
(* The character classes, lexer.ts:62-71 *)

\* an isAlpha that leaves '-' out of the word characters
isAlphaNoHyphen(c) ==
    /\ c # Undefined
    /\ \/ ToUpperCase(c) # ToLowerCase(c)
       \/ c = "_"

isAlpha(c) ==
    /\ c # Undefined
    /\ \/ ToUpperCase(c) # ToLowerCase(c)
       \/ c = "_"
       \/ c = "-"

isNumeric(c) == c # Undefined /\ ~isNaN(ParseInt(c))

----------------------------------------------------------------------------
(* The helpers of tokenize, lexer.ts:77-89 *)

\* a skipWhitespace that is off by one: it also drops the character that
\* ends the run of white space
RECURSIVE skipWhitespacePast(_)
skipWhitespacePast(s) ==
    IF Len(s) > 0 /\ s[1] \in WhiteSpace
    THEN IF Len(s) > 1 /\ s[2] \in WhiteSpace
         THEN skipWhitespacePast(Tail(s))
         ELSE Shift(Tail(s))
    ELSE s

\* skipWhitespace: drop the leading white space of the buffer
RECURSIVE skipWhitespace(_)
skipWhitespace(s) ==
    IF Len(s) > 0 /\ s[1] \in WhiteSpace THEN skipWhitespace(Tail(s)) ELSE s

\* a comment loop that also consumes the newline that ends the comment
RECURSIVE DropLineAndNewline(_)
DropLineAndNewline(s) ==
    IF Len(s) > 0
    THEN IF s[1] # "\n" THEN DropLineAndNewline(Tail(s)) ELSE Tail(s)
    ELSE s

\* the loop of skipComment: drop up to, and not including, the next newline
RECURSIVE DropLine(_)
DropLine(s) ==
    IF Len(s) > 0 /\ s[1] # "\n" THEN DropLine(Tail(s)) ELSE s

skipComment(s) == IF At(s, 1) = "/" THEN DropLine(s) ELSE s

\* a string loop that honours backslash escapes: the character after a
\* backslash never ends the literal
RECURSIVE StringBodyEscapes(_, _)
StringBodyEscapes(s, quote) ==
    IF Len(s) > 0 /\ s[1] # quote
    THEN IF s[1] = "\\" /\ Len(s) > 1
         THEN <<s[1], s[2]>> \o StringBodyEscapes(Tail(Tail(s)), quote)
         ELSE <<s[1]>> \o StringBodyEscapes(Tail(s), quote)
    ELSE <<>>

\* the loop of the string branch: the characters before the first `quote`
RECURSIVE StringBody(_, _)
StringBody(s, quote) ==
    IF Len(s) > 0 /\ s[1] # quote
    THEN <<s[1]>> \o StringBody(Tail(s), quote)
    ELSE <<>>

\* the loop of the word branch: the leading run of alpha or numeric characters
RECURSIVE WordRun(_)
WordRun(s) ==
    IF Len(s) > 0 /\ (isAlpha(s[1]) \/ isNumeric(s[1]))
    THEN <<s[1]>> \o WordRun(Tail(s))
    ELSE <<>>

\* s without its first n elements
Drop(s, n) == SubSeq(s, n + 1, Len(s))

\* an operator set that leaves '-' to the word scan
OperatorCharsNoMinus == <<"+", "*", "/">>

\* the characters "+-*/" of lexer.ts:126
OperatorChars == <<"+", "-", "*", "/">>

\* String.prototype.includes for a one-character (or undefined) argument
StringIncludes(str, c) == \E i \in 1..Len(str) : str[i] = c

----------------------------------------------------------------------------
(* One iteration of the scan loop, lexer.ts:91-167.  Each branch takes the *)
(* buffer `s` as skipWhitespace left it and gives the buffer it leaves and *)
(* the tokens it pushes.                                                   *)

Result(rest, pushed) == [src |-> rest, toks |-> pushed]

\* which branch of the if / else-if chain an iteration takes
BranchOf(s) ==
    IF At(s, 0) = "/" /\ At(s, 1) = "/" THEN "comment"
    ELSE IF At(s, 0) = "<" THEN "lt"
    ELSE IF At(s, 0) = ">" THEN "gt"
    ELSE IF At(s, 0) = "/" THEN "slash"
    ELSE IF At(s, 0) = "(" THEN "openParen"
    ELSE IF At(s, 0) = ")" THEN "closeParen"
    ELSE IF At(s, 0) = "{" THEN "openBrace"
    ELSE IF At(s, 0) = "}" THEN "closeBrace"
    ELSE IF StringIncludes(OperatorChars, At(s, 0)) THEN "operator"
    ELSE IF At(s, 0) = "=" THEN "equals"
    ELSE IF At(s, 0) = "\"" \/ At(s, 0) = "'" THEN "string"
    ELSE IF isNumeric(At(s, 0)) \/ isAlpha(At(s, 0)) THEN "word"
    ELSE "other"

\* a comment branch that keeps the comment as a token
CommentBranchEmits(s) ==
    Result(skipComment(s),
           <<Token(Join(SubSeq(s, 1, Len(s) - Len(skipComment(s)))),
                   TokenType.Comment)>>)

\* lexer.ts:94-95
CommentBranch(s) == Result(skipComment(s), <<>>)

\* a '<' branch that consumes one character of "</" instead of two
LtBranchOneShift(s) ==
    IF At(s, 1) = "/"
    THEN Result(Shift(s), <<Token("</", TokenType.EndBracket)>>)
    ELSE Result(Shift(s), <<Token("<", TokenType.OpenBracket)>>)

\* a '<' branch that does not look at the next character
LtBranchNoLookahead(s) ==
    Result(Shift(s), <<Token("<", TokenType.OpenBracket)>>)

\* lexer.ts:96-104
LtBranch(s) ==
    IF At(s, 1) = "/"
    THEN Result(Shift(Shift(s)), <<Token("</", TokenType.EndBracket)>>)
    ELSE Result(Shift(s), <<Token("<", TokenType.OpenBracket)>>)

\* a '>' branch that pushes the type of the '<' branch
GtBranchAsOpen(s) == Result(Shift(s), <<Token(">", TokenType.OpenBracket)>>)

\* lexer.ts:105-107
GtBranch(s) == Result(Shift(s), <<Token(">", TokenType.CloseBracket)>>)

\* a '/' branch that pushes the division operator for a lone '/'
SlashBranchDivides(s) ==
    IF At(s, 1) = ">"
    THEN Result(Shift(Shift(s)), <<Token("/>", TokenType.SelfClosingTag)>>)
    ELSE Result(Shift(s), <<Token("/", TokenType.BinaryOperator)>>)

\* lexer.ts:108-113
SlashBranch(s) ==
    IF At(s, 1) = ">"
    THEN Result(Shift(Shift(s)), <<Token("/>", TokenType.SelfClosingTag)>>)
    ELSE Result(Shift(s), <<>>)

\* lexer.ts:114-116
OpenParenBranch(s) == Result(Shift(s), <<Token("(", TokenType.OpenParen)>>)

\* lexer.ts:117-119
CloseParenBranch(s) == Result(Shift(s), <<Token(")", TokenType.CloseParen)>>)

\* lexer.ts:120-122
OpenBraceBranch(s) == Result(Shift(s), <<Token("{", TokenType.OpenBrace)>>)

\* lexer.ts:123-125
CloseBraceBranch(s) == Result(Shift(s), <<Token("}", TokenType.CloseBrace)>>)

\* lexer.ts:126-128
OperatorBranch(s) ==
    Result(Shift(s), <<Token(At(s, 0), TokenType.BinaryOperator)>>)

\* lexer.ts:129-131
EqualsBranch(s) == Result(Shift(s), <<Token("=", TokenType.Equals)>>)

\* a string branch that pushes nothing when the closing quote is missing
StringBranchDropsOpen(s) ==
    LET quote == At(s, 0)
        str   == StringBody(Shift(s), quote)
        rest  == Drop(Shift(s), Len(str))
    IN  IF rest = <<>>
        THEN Result(rest, <<>>)
        ELSE Result(Shift(rest), <<Token(Join(str), TokenType.StringLiteral)>>)

\* lexer.ts:132-142
StringBranch(s) ==
    LET quote == At(s, 0)
        str   == StringBody(Shift(s), quote)
    IN  Result(Shift(Drop(Shift(s), Len(str))),
               <<Token(Join(str), TokenType.StringLiteral)>>)

\* TokenType[name]: undefined when the enumeration has no such member
EnumLookup(name) ==
    IF name \in DOMAIN TokenType THEN TokenType[name] ELSE Undefined

\* a lookup that indexes the enum by the word as written, not capitalised
KeywordTypeAsWritten(w) == EnumLookup(Join(w))

\* lexer.ts:155-158: the enumerant named by the word with its first letter
\* capitalized
KeywordType(w) == EnumLookup(ToUpperCase(w[1]) \o Join(Tail(w)))

\* lexer.ts:150-162: the token a scanned word (the characters w) becomes
ClassifyWord(w) ==
    IF ~WordIsNaN(w) THEN Token(Join(w), TokenType.Number)
    ELSE IF ArrayIncludes(specialIdentifiers, Join(w))
         THEN Token(Join(w), KeywordType(w))
    ELSE Token(Join(w), TokenType.Identifier)

\* lexer.ts:144-162
WordBranch(s) ==
    LET word == WordRun(s)
    IN  Result(Drop(s, Len(word)), <<ClassifyWord(word)>>)

\* a fallback that forgets to consume the unrecognised character
OtherBranchStuck(s) == Result(s, <<>>)

\* a fallback that keeps the unrecognised character as a token
OtherBranchEmits(s) ==
    Result(Shift(s), <<Token(At(s, 0), TokenType.Identifier)>>)

\* lexer.ts:163-165
OtherBranch(s) == Result(Shift(s), <<>>)

\* the body of the scan loop, lexer.ts:92-166
Step(buffer) ==
    LET s == skipWhitespace(buffer)
        b == BranchOf(s)
    IN  CASE b = "comment"    -> CommentBranch(s)
          [] b = "lt"         -> LtBranch(s)
          [] b = "gt"         -> GtBranch(s)
          [] b = "slash"      -> SlashBranch(s)
          [] b = "openParen"  -> OpenParenBranch(s)
          [] b = "closeParen" -> CloseParenBranch(s)
          [] b = "openBrace"  -> OpenBraceBranch(s)
          [] b = "closeBrace" -> CloseBraceBranch(s)
          [] b = "operator"   -> OperatorBranch(s)
          [] b = "equals"     -> EqualsBranch(s)
          [] b = "string"     -> StringBranch(s)
          [] b = "word"       -> WordBranch(s)
          [] OTHER            -> OtherBranch(s)

\* tokenize as a function: the loop run from `buffer` with `out` pushed so far
RECURSIVE ScanFrom(_, _)
ScanFrom(buffer, out) ==
    IF Len(buffer) > 0
    THEN ScanFrom(Step(buffer).src, out \o Step(buffer).toks)
    ELSE out

\* tokenize(source), lexer.ts:73-170
tokenize(input) == ScanFrom(input, <<>>)

----------------------------------------------------------------------------
(* The inputs *)

Characters ==
    { " ", "\n", "/", "<", ">", "(", ")", "{", "}", "+", "-", "*", "=",
      "\"", "'", ",", "\\", "_", "a", "x", "4", "0", "e" }

\* the sixteen reserved words, character by character
ReservedWords ==
    { <<"l", "e", "t">>,
      <<"c", "o", "n", "s", "t">>,
      <<"a", "r", "g", "s">>,
      <<"a", "r", "g">>,
      <<"r", "e", "t", "u", "r", "n">>,
      <<"c", "o", "u", "n", "t", "e", "r">>,
      <<"n", "a", "m", "e">>,
      <<"t", "y", "p", "e">>,
      <<"w", "h", "i", "l", "e">>,
      <<"f", "o", "r">>,
      <<"i", "f">>,
      <<"e", "l", "s", "e", "I", "f">>,
      <<"e", "l", "s", "e">>,
      <<"f", "r", "o", "m">>,
      <<"t", "o">>,
      <<"c", "o", "n", "d", "i", "t", "i", "o", "n">> }

\* a reserved word, and words near a reserved word or near a number
Words ==
    { <<"n", "a", "m", "e">>,
      <<"l", "e", "t", "x">>,
      <<"L", "e", "t">>,
      <<"e", "l", "s", "e", "i", "f">>,
      <<"4", "2">>,
      <<"4", "2", "a", "b", "c">>,
      <<"1", "e", "5">>,
      <<"0", "x", "1", "0">>,
      <<"I", "n", "f", "i", "n", "i", "t", "y">>,
      <<"f", "o", "o", "-", "-", "b", "a", "r">> }

\* two-character markers and the sample inputs of the documentation
Phrases ==
    { <<"/", "/">>,
      <<"<", "/">>,
      <<"/", ">">>,
      <<"a", " ", "/", "/", " ", "b", "\n", "c">>,
      <<"4", "/", "2">>,
      <<"/", " ", ">">>,
      <<" ", " ", "l", "e", "t", " ", " ">>,
      <<"\"", "h", "e", "l", "l", "o", "\"">>,
      <<"\"", "a", "\\", "\"", "b", "\"">> }

Lexicon == {<<c>> : c \in Characters} \cup Words \cup Phrases

\* the concatenations of at most n pieces
RECURSIVE Concatenations(_)
Concatenations(n) ==
    IF n = 0 THEN {<<>>}
    ELSE LET shorter == Concatenations(n - 1)
         IN  shorter \cup {p \o rest : p \in Lexicon, rest \in shorter}

\* what is put before and after a reserved word
Margins == {<<>>, <<" ">>, <<"x">>, <<"4">>, <<"-">>, <<"<">>}

\* every reserved word, alone and between two margins
ReservedWordInputs ==
    {pre \o w \o post : pre \in Margins, w \in ReservedWords, post \in Margins}

\* characters no branch of the loop recognises, alone and between two margins
FallbackInputs ==
    {pre \o <<c>> \o post :
        pre \in Margins, c \in {"[", "!", ";", ","}, post \in Margins}

Inputs ==
    Concatenations(MaxPieces) \cup ReservedWordInputs \cup FallbackInputs

----------------------------------------------------------------------------
(* The state machine: tokenize(source), one action per branch of the loop  *)

\* lexer.ts:73-75
Init ==
    /\ source \in Inputs
    /\ src = source
    /\ tokens = <<>>
    /\ spans = <<>>
    /\ pc = "scan"

\* the buffer of the current iteration after lexer.ts:92
Cursor == skipWhitespace(src)

\* the 1-based source position of the first character of the Cursor
CursorPos == Len(source) - Len(Cursor) + 1

\* the history of a token pushed in this iteration by branch b: the branch,
\* and where its lexeme lies in the source (a string literal's starts after
\* the opening quote)
SpanOf(b, tok) ==
    LET from == IF b = "string" THEN CursorPos + 1 ELSE CursorPos
    IN  [by |-> b, from |-> from, to |-> from + Len(tok.value) - 1]

\* an iteration of the loop (lexer.ts:91) that takes branch b with result r
Iteration(b, r) ==
    /\ pc = "scan"
    /\ Len(src) > 0
    /\ BranchOf(Cursor) = b
    /\ src' = r.src
    /\ tokens' = tokens \o r.toks
    /\ spans' = spans \o [i \in 1..Len(r.toks) |-> SpanOf(b, r.toks[i])]
    /\ UNCHANGED <<source, pc>>

ScanComment    == Iteration("comment", CommentBranch(Cursor))
ScanLt         == Iteration("lt", LtBranch(Cursor))
ScanGt         == Iteration("gt", GtBranch(Cursor))
ScanSlash      == Iteration("slash", SlashBranch(Cursor))
ScanOpenParen  == Iteration("openParen", OpenParenBranch(Cursor))
ScanCloseParen == Iteration("closeParen", CloseParenBranch(Cursor))
ScanOpenBrace  == Iteration("openBrace", OpenBraceBranch(Cursor))
ScanCloseBrace == Iteration("closeBrace", CloseBraceBranch(Cursor))
ScanOperator   == Iteration("operator", OperatorBranch(Cursor))
ScanEquals     == Iteration("equals", EqualsBranch(Cursor))
ScanString     == Iteration("string", StringBranch(Cursor))
ScanWord  == Iteration("word", WordBranch(Cursor))
ScanOther      == Iteration("other", OtherBranch(Cursor))

\* lexer.ts:91 and 169: the buffer is empty, tokenize returns tokens
Return ==
    /\ pc = "scan"
    /\ Len(src) = 0
    /\ pc' = "done"
    /\ UNCHANGED <<source, src, tokens, spans>>

Next ==
    \/ ScanComment
    \/ ScanLt
    \/ ScanGt
    \/ ScanSlash
    \/ ScanOpenParen
    \/ ScanCloseParen
    \/ ScanOpenBrace
    \/ ScanCloseBrace
    \/ ScanOperator
    \/ ScanEquals
    \/ ScanString
    \/ ScanWord
    \/ ScanOther
    \/ Return

Spec == Init /\ [][Next]_vars

----------------------------------------------------------------------------
(* Vocabulary of the properties *)

Digit == {"0", "1", "2", "3", "4", "5", "6", "7", "8", "9"}

Letter ==
    {LowerCase[i] : i \in 1..26} \cup {UpperCase[i] : i \in 1..26}

\* the characters a word is made of
WordChar == Letter \cup Digit \cup {"_", "-"}

Quote == {"\"", "'"}

\* the loop is about to run an iteration
Scanning == pc = "scan" /\ Len(src) > 0

\* the number of characters removed from the buffer so far
Consumed == Len(source) - Len(src)

\* the characters of the source that tokens[i] took its lexeme from
Lexeme(i) == SubSeq(source, spans[i].from, spans[i].to)

\* the tokens the word branch pushed
WordTokens == {i \in 1..Len(tokens) : spans[i].by = "word"}

IsDigitRun(w) == Len(w) > 0 /\ \A i \in 1..Len(w) : w[i] \in Digit

\* the first index k >= from with s[k] = c, or Len(s) + 1 when there is none
FirstAt(s, c, from) ==
    IF \E k \in from..Len(s) : s[k] = c
    THEN CHOOSE k \in from..Len(s) :
            s[k] = c /\ \A j \in from..(k - 1) : s[j] # c
    ELSE Len(s) + 1

----------------------------------------------------------------------------
(* C1 *)

\* C1: tokenize terminates: the loop body run on a non-empty buffer leaves a
\* strictly shorter one, whichever branch it takes (also when skipping white
\* space empties the buffer), so every iteration removes at least one
\* character, and on an empty buffer the loop returns.
Terminates ==
    /\ [](Scanning => Len(Step(src).src) < Len(src))
    /\ [][Scanning => (Len(src') < Len(src) /\ pc' = "scan")]_vars
    /\ [][(pc = "scan" /\ Len(src) = 0) => pc' = "done"]_vars

\* a run has returned whose last iteration only skipped trailing white space
TerminatesWitness ==
    /\ pc = "done"
    /\ Len(source) > 1
    /\ source[Len(source)] \in WhiteSpace
    /\ tokens # <<>>
    /\ spans[Len(tokens)].by = "word"

----------------------------------------------------------------------------
(* C2 *)

\* C2: a '/' at the cursor that is followed by neither '/' nor '>' is pushed
\* as BinaryOperator('/'), and tokenizing 4/2 gives Number(4),
\* BinaryOperator(/), Number(2).
DivisionIsOperator ==
    /\ [][(Scanning /\ At(Cursor, 0) = "/" /\ At(Cursor, 1) \notin {"/", ">"})
            => tokens' = Append(tokens, Token("/", TokenType.BinaryOperator))]_vars
    /\ []((pc = "done" /\ source = <<"4", "/", "2">>)
            => tokens = << Token("4", TokenType.Number),
                           Token("/", TokenType.BinaryOperator),
                           Token("2", TokenType.Number) >>)

----------------------------------------------------------------------------
(* C3 *)

ReservedTypes ==
    { TokenType.Comment, TokenType.StartTemplateString,
      TokenType.EndTemplateString, TokenType.StartInterpolation,
      TokenType.EndInterpolation }

\* C3 as stated: no token has type Comment, Name, StartTemplateString,
\* EndTemplateString, StartInterpolation or EndInterpolation.
NoUnusedTypeEmitted ==
    \A i \in 1..Len(tokens) :
        tokens[i].type \notin ReservedTypes \cup {TokenType.Name}

\* C3 amended: no token has type Comment, StartTemplateString,
\* EndTemplateString, StartInterpolation or EndInterpolation; a token has
\* type Name exactly when it is the scanned word `name`.
OnlyNameOfUnusedTypesEmitted ==
    \A i \in 1..Len(tokens) :
        /\ tokens[i].type \notin ReservedTypes
        /\ tokens[i].type = TokenType.Name
             <=> (i \in WordTokens /\ Lexeme(i) = <<"n", "a", "m", "e">>)

\* the word `name` has been scanned next to a comment
NameEmittedWitness ==
    /\ \E i \in 1..Len(tokens) : tokens[i] = Token("name", TokenType.Name)
    /\ \E k \in 1..(Len(source) - 1) : source[k] = "/" /\ source[k + 1] = "/"
    /\ pc = "done"

----------------------------------------------------------------------------
(* C4 *)

\* the next character after tokens[i]'s lexeme is not a word character
RightMaximal(i) ==
    spans[i].to = Len(source) \/ source[spans[i].to + 1] \notin WordChar

\* digits, e or E, an optional '-', digits
ExponentForm(w) ==
    \E k \in 2..(Len(w) - 1) :
        /\ w[k] \in {"e", "E"}
        /\ IsDigitRun(SubSeq(w, 1, k - 1))
        /\ \/ IsDigitRun(SubSeq(w, k + 1, Len(w)))
           \/ w[k + 1] = "-" /\ IsDigitRun(SubSeq(w, k + 2, Len(w)))

\* 0x, 0o or 0b (in either case) and digits of that radix
RadixForm(w) ==
    /\ Len(w) > 2
    /\ w[1] = "0"
    /\ LET body == SubSeq(w, 3, Len(w))
           In(set) == \A i \in 1..Len(body) : body[i] \in set
       IN  \/ w[2] \in {"x", "X"}
              /\ In(Digit \cup {"a", "b", "c", "d", "e", "f",
                                "A", "B", "C", "D", "E", "F"})
           \/ w[2] \in {"o", "O"} /\ In({"0", "1", "2", "3", "4", "5", "6", "7"})
           \/ w[2] \in {"b", "B"} /\ In({"0", "1"})

\* C4 as stated: a scanned word is a Number exactly when it is a run of
\* decimal digits.
NumberIffDigitsOnly ==
    \A i \in WordTokens :
        /\ tokens[i].value = Join(Lexeme(i))
        /\ RightMaximal(i)
        /\ tokens[i].type = TokenType.Number <=> IsDigitRun(Lexeme(i))

\* C4 amended: a scanned word is a Number exactly when it is a run of
\* decimal digits, optionally followed by an exponent (e or E, an optional
\* '-', digits), or a 0x / 0o / 0b literal, or the word Infinity.
NumberIffNumericLiteral ==
    \A i \in WordTokens :
        /\ tokens[i].value = Join(Lexeme(i))
        /\ RightMaximal(i)
        /\ tokens[i].type = TokenType.Number
             <=> \/ IsDigitRun(Lexeme(i))
                 \/ ExponentForm(Lexeme(i))
                 \/ RadixForm(Lexeme(i))
                 \/ Lexeme(i) = <<"I", "n", "f", "i", "n", "i", "t", "y">>

\* both a digit run and a word in exponent form have been pushed as Number
NumberWitness ==
    /\ \E i \in WordTokens :
          tokens[i].type = TokenType.Number /\ IsDigitRun(Lexeme(i))
    /\ \E i \in WordTokens :
          tokens[i].type = TokenType.Number /\ ExponentForm(Lexeme(i))
    /\ pc = "done"

----------------------------------------------------------------------------
(* C5 *)

\* the tokens whose lexeme starts at a '-' that digits follow
LeadingMinusTokens ==
    { i \in 1..Len(tokens) :
        /\ spans[i].by # "string"
        /\ spans[i].from < Len(source)
        /\ source[spans[i].from] = "-"
        /\ source[spans[i].from + 1] \in Digit }

\* C5 as stated: a '-' at the cursor that digits follow is scanned together
\* with them into one word token.
LeadingMinusJoinsWord ==
    \A i \in LeadingMinusTokens :
        /\ spans[i].by = "word"
        /\ spans[i].to > spans[i].from

\* C5 amended: a '-' at the cursor is pushed alone as BinaryOperator('-'),
\* also when digits follow it, and the digits are then scanned as a separate
\* word (a Number when the word is all digits); a '-' is part of a word only
\* after the word's first character.
LeadingMinusIsOperator ==
    /\ \A i \in LeadingMinusTokens :
          /\ tokens[i] = Token("-", TokenType.BinaryOperator)
          /\ spans[i].to = spans[i].from
          /\ i < Len(tokens) =>
                /\ spans[i + 1].by = "word"
                /\ spans[i + 1].from = spans[i].from + 1
                /\ IsDigitRun(Lexeme(i + 1))
                      => tokens[i + 1].type = TokenType.Number
    /\ \A i \in WordTokens : source[spans[i].from] # "-"

\* '-' and the digits after it have been pushed as an operator and a Number
LeadingMinusWitness ==
    \E i \in LeadingMinusTokens :
        /\ i < Len(tokens)
        /\ tokens[i] = Token("-", TokenType.BinaryOperator)
        /\ tokens[i + 1] = Token("42", TokenType.Number)

----------------------------------------------------------------------------
(* C6 *)

\* the positions of the characters of s that are not white space
Inked(s) == {k \in 1..Len(s) : s[k] \notin WhiteSpace}

First(S) == CHOOSE k \in S : \A j \in S : k <= j
Last(S) == CHOOSE k \in S : \A j \in S : k >= j

\* s without its leading white space
WithoutLeadingSpace(s) ==
    IF Inked(s) = {} THEN <<>> ELSE SubSeq(s, First(Inked(s)), Len(s))

\* s without its leading and its trailing white space
WithoutSurroundingSpace(s) ==
    IF Inked(s) = {} THEN <<>> ELSE SubSeq(s, First(Inked(s)), Last(Inked(s)))

\* the input ran out inside a string literal: the last token is a string
\* whose lexeme reaches the end of the source, with no closing quote
OpenStringAtEnd ==
    /\ tokens # <<>>
    /\ spans[Len(tokens)].by = "string"
    /\ spans[Len(tokens)].to = Len(source)

\* C6 as stated: white space around a source never changes the tokens: the
\* tokens of w1 + s + w2 are the tokens of s, for every s.
PaddingNeverMatters ==
    pc = "done" => tokens = tokenize(WithoutSurroundingSpace(source))

\* C6 amended: white space before a source never changes the tokens, and
\* white space after it does not either unless the source ends inside an
\* unterminated string literal (which absorbs it).
PaddingMattersOnlyInOpenString ==
    pc = "done" =>
        /\ tokens = tokenize(WithoutLeadingSpace(source))
        /\ ~OpenStringAtEnd
              => tokens = tokenize(WithoutSurroundingSpace(source))

\* a source with white space on both sides has been tokenized
PaddingWitness ==
    /\ pc = "done"
    /\ Len(source) > 2
    /\ source[1] \in WhiteSpace
    /\ source[Len(source)] \in WhiteSpace
    /\ Len(tokens) > 1
    /\ ~OpenStringAtEnd

----------------------------------------------------------------------------
(* C7 *)

\* the enumerant each reserved word names
KeywordOf(w) ==
    CASE w = <<"l", "e", "t">> -> TokenType.Let
      [] w = <<"c", "o", "n", "s", "t">> -> TokenType.Const
      [] w = <<"a", "r", "g", "s">> -> TokenType.Args
      [] w = <<"a", "r", "g">> -> TokenType.Arg
      [] w = <<"r", "e", "t", "u", "r", "n">> -> TokenType.Return
      [] w = <<"c", "o", "u", "n", "t", "e", "r">> -> TokenType.Counter
      [] w = <<"n", "a", "m", "e">> -> TokenType.Name
      [] w = <<"t", "y", "p", "e">> -> TokenType.Type
      [] w = <<"w", "h", "i", "l", "e">> -> TokenType.While
      [] w = <<"f", "o", "r">> -> TokenType.For
      [] w = <<"i", "f">> -> TokenType.If
      [] w = <<"e", "l", "s", "e", "I", "f">> -> TokenType.ElseIf
      [] w = <<"e", "l", "s", "e">> -> TokenType.Else
      [] w = <<"f", "r", "o", "m">> -> TokenType.From
      [] w = <<"t", "o">> -> TokenType.To
      [] w = <<"c", "o", "n", "d", "i", "t", "i", "o", "n">> -> TokenType.Condition

\* C7: a scanned word that is not a Number has a keyword type exactly when
\* it equals, case-sensitively, one of the 16 reserved words, and then the
\* type is the enumerant named after it; every other word is one Identifier
\* with the whole word as lexeme.
KeywordIffTableEntry ==
    \A i \in WordTokens :
        tokens[i].type # TokenType.Number =>
            /\ tokens[i].value = Join(Lexeme(i))
            /\ RightMaximal(i)
            /\ IF Lexeme(i) \in ReservedWords
               THEN tokens[i].type = KeywordOf(Lexeme(i))
               ELSE tokens[i].type = TokenType.Identifier

\* a reserved word and a longer word that starts with it have been scanned
KeywordWitness ==
    /\ pc = "done"
    /\ \E i \in WordTokens : tokens[i] = Token("let", TokenType.Let)
    /\ \E i \in WordTokens : tokens[i] = Token("letx", TokenType.Identifier)

----------------------------------------------------------------------------
(* C8 *)

\* the total length of the lexemes of the first k tokens
RECURSIVE LexemeTotal(_)
LexemeTotal(k) ==
    IF k = 0 THEN 0 ELSE Len(tokens[k].value) + LexemeTotal(k - 1)

IsSuffix(s, whole) ==
    /\ Len(s) <= Len(whole)
    /\ s = SubSeq(whole, Len(whole) - Len(s) + 1, Len(whole))

IsPrefix(s, whole) ==
    /\ Len(s) <= Len(whole)
    /\ s = SubSeq(whole, 1, Len(s))

\* C8: the scan goes left to right without backtracking: the buffer is a
\* suffix of the input and only shrinks, tokens are only appended, every
\* lexeme is a stretch of the consumed input, the stretches are disjoint and
\* in source order, and neither the total lexeme length nor the number of
\* tokens exceeds the number of characters consumed (so, the input length).
LeftToRight ==
    /\ [] /\ IsSuffix(src, source)
          /\ Len(spans) = Len(tokens)
          /\ \A i \in 1..Len(tokens) :
                /\ 1 <= spans[i].from
                /\ spans[i].from <= spans[i].to + 1
                /\ spans[i].to <= Consumed
                /\ tokens[i].value = Join(Lexeme(i))
          /\ \A i, j \in 1..Len(tokens) :
                i < j => spans[i].to < spans[j].from
          /\ LexemeTotal(Len(tokens)) <= Consumed
          /\ Len(tokens) <= Consumed
    /\ [][IsSuffix(src', src) /\ IsPrefix(tokens, tokens')]_vars

\* a run has returned several tokens and discarded some characters
LeftToRightWitness ==
    /\ pc = "done"
    /\ Len(tokens) > 2
    /\ LexemeTotal(Len(tokens)) < Len(source)

----------------------------------------------------------------------------
(* C9 *)

\* C9: at a quote q that occurs again later, one StringLiteral is pushed
\* whose lexeme is, verbatim, what lies between the opening q and the first
\* later q, and the scan resumes right after that closing q; so in "a\"b"
\* the quote after the backslash ends the literal.
ClosedStringScan ==
    /\ [][(/\ Scanning
           /\ At(Cursor, 0) \in Quote
           /\ FirstAt(Cursor, At(Cursor, 0), 2) <= Len(Cursor))
          => LET close == FirstAt(Cursor, At(Cursor, 0), 2)
             IN  /\ tokens' =
                      Append(tokens,
                             Token(Join(SubSeq(Cursor, 2, close - 1)),
                                   TokenType.StringLiteral))
                 /\ src' = SubSeq(Cursor, close + 1, Len(Cursor))]_vars
    /\ []((pc = "done" /\ source = <<"\"", "a", "\\", "\"", "b", "\"">>)
            => tokens = << Token("a\\", TokenType.StringLiteral),
                           Token("b", TokenType.Identifier),
                           Token("", TokenType.StringLiteral) >>)

\* a closed string literal that holds a backslash has been pushed
ClosedStringWitness ==
    \E i \in 1..Len(tokens) :
        /\ spans[i].by = "string"
        /\ spans[i].to < Len(source)
        /\ source[spans[i].to + 1] = source[spans[i].from - 1]
        /\ \E k \in spans[i].from..spans[i].to : source[k] = "\\"

----------------------------------------------------------------------------
(* C10 *)

\* C10: a "//" at the cursor starts a line comment: everything up to, and
\* not including, the next newline (or up to the end of the input) is
\* consumed, no token is pushed, and the newline is left in the buffer; so
\* "a // b\nc" gives Identifier(a), Identifier(c).
LineCommentSkipped ==
    /\ [][(Scanning /\ At(Cursor, 0) = "/" /\ At(Cursor, 1) = "/")
          => /\ tokens' = tokens
             /\ src' = SubSeq(Cursor, FirstAt(Cursor, "\n", 1), Len(Cursor))]_vars
    /\ []((pc = "done"
             /\ source = <<"a", " ", "/", "/", " ", "b", "\n", "c">>)
            => tokens = << Token("a", TokenType.Identifier),
                           Token("c", TokenType.Identifier) >>)

\* a comment that a newline ends has been skipped between two tokens
LineCommentWitness ==
    /\ pc = "done"
    /\ \E k \in 1..(Len(source) - 1) :
          /\ source[k] = "/" /\ source[k + 1] = "/"
          /\ \E n \in (k + 2)..Len(source) : source[n] = "\n"
          /\ \E i \in 1..(Len(tokens) - 1) :
                spans[i].to < k /\ spans[i + 1].from > k + 1

----------------------------------------------------------------------------
(* C11 *)

\* C11: at a quote that does not occur again, one StringLiteral is pushed
\* whose lexeme is everything after the opening quote, the buffer is empty
\* afterwards, and that token stays the last one of the output.
OpenStringScan ==
    /\ [][(/\ Scanning
           /\ At(Cursor, 0) \in Quote
           /\ FirstAt(Cursor, At(Cursor, 0), 2) > Len(Cursor))
          => /\ tokens' =
                  Append(tokens,
                         Token(Join(SubSeq(Cursor, 2, Len(Cursor))),
                               TokenType.StringLiteral))
             /\ src' = <<>>]_vars
    /\ [](\A i \in 1..Len(tokens) :
            (spans[i].by = "string" /\ spans[i].to = Len(source))
               => (i = Len(tokens) /\ src = <<>>))

\* a run has returned whose last token is an unterminated string literal
\* that absorbed more than one character
OpenStringWitness ==
    /\ pc = "done"
    /\ OpenStringAtEnd
    /\ Len(tokens) > 1
    /\ Len(tokens[Len(tokens)].value) > 1

----------------------------------------------------------------------------
(* C12 *)

\* C12: a '/' that '>' follows is pushed with it as SelfClosingTag("/>") and
\* both are consumed; a '/' that neither '>' nor '/' follows is consumed
\* alone and pushes nothing, so "/ >" gives only CloseBracket(">").
SlashScan ==
    /\ [][(Scanning /\ At(Cursor, 0) = "/" /\ At(Cursor, 1) = ">")
          => /\ tokens' = Append(tokens, Token("/>", TokenType.SelfClosingTag))
             /\ src' = SubSeq(Cursor, 3, Len(Cursor))]_vars
    /\ [][(Scanning /\ At(Cursor, 0) = "/" /\ At(Cursor, 1) \notin {">", "/"})
          => /\ tokens' = tokens
             /\ src' = SubSeq(Cursor, 2, Len(Cursor))]_vars
    /\ []((pc = "done" /\ source = <<"/", " ", ">">>)
            => tokens = <<Token(">", TokenType.CloseBracket)>>)

\* a lone '/' has been dropped and a "/>" pushed in the same run
SlashWitness ==
    /\ pc = "done"
    /\ \E k \in 1..(Len(source) - 1) :
          /\ source[k] = "/" /\ source[k + 1] = " "
          /\ \A i \in 1..Len(tokens) : ~(spans[i].from <= k /\ k <= spans[i].to)
    /\ \E i \in 1..Len(tokens) : tokens[i] = Token("/>", TokenType.SelfClosingTag)

----------------------------------------------------------------------------
(* C13 *)

\* the numbers of the enum's members, printed
EnumMembers == {ToString(TokenType[n]) : n \in DOMAIN TokenType}

\* C13: the type of every token is a member of TokenType, never undefined:
\* each of the 16 entries of the special-identifier table, capitalised,
\* names a member of the enum.
TypeAlwaysDefined ==
    /\ \A i \in 1..Len(tokens) : ToString(tokens[i].type) \in EnumMembers
    /\ Len(specialIdentifiers) = 16
    /\ \A k \in 1..Len(specialIdentifiers) :
          \E w \in ReservedWords :
              /\ Join(w) = specialIdentifiers[k]
              /\ ToString(KeywordType(w)) \in EnumMembers

\* a run has returned a token for "elseIf", the entry whose capitalised
\* form differs from it in more than the case of its letters
TypeDefinedWitness ==
    /\ pc = "done"
    /\ \E i \in WordTokens :
          /\ tokens[i].value = "elseIf"
          /\ ToString(tokens[i].type) = ToString(TokenType.ElseIf)

----------------------------------------------------------------------------
(* C14 *)

\* the characters that start a word at the cursor
WordStart == Letter \cup Digit \cup {"_"}

\* the length of the longest prefix of s made of word characters
WordPrefix(s) ==
    CHOOSE n \in 0..Len(s) :
        /\ \A k \in 1..n : s[k] \in WordChar
        /\ n = Len(s) \/ s[n + 1] \notin WordChar

\* C14: the word scan is maximal and '-' and '_' continue a word: a word
\* that starts at the cursor takes every following letter, digit, '_' and
\* '-' into one token, "foo--bar" is one Identifier, and no '-' operator
\* is pushed for a '-' that comes right after a character of a word.
WordScanMaximal ==
    /\ [][(Scanning /\ At(Cursor, 0) \in WordStart)
          => /\ Len(tokens') = Len(tokens) + 1
             /\ tokens'[Len(tokens')].value =
                  Join(SubSeq(Cursor, 1, WordPrefix(Cursor)))
             /\ src' = SubSeq(Cursor, WordPrefix(Cursor) + 1, Len(Cursor))]_vars
    /\ []((pc = "done"
             /\ source = <<"f", "o", "o", "-", "-", "b", "a", "r">>)
            => tokens = <<Token("foo--bar", TokenType.Identifier)>>)
    /\ [](\A i \in 1..Len(tokens) :
            (/\ tokens[i] = Token("-", TokenType.BinaryOperator)
             /\ spans[i].from > 1)
               => /\ source[spans[i].from - 1] \notin WordStart
                  /\ \A j \in WordTokens : spans[j].to # spans[i].from - 1)

\* a run has returned a word token that holds two adjacent '-' next to a
\* '-' operator pushed before the word started
WordScanWitness ==
    /\ pc = "done"
    /\ \E i \in WordTokens :
          /\ tokens[i] = Token("foo--bar", TokenType.Identifier)
          /\ i > 1
          /\ tokens[i - 1] = Token("-", TokenType.BinaryOperator)

----------------------------------------------------------------------------
(* C15 *)

\* the characters some rule of the scan matches
Matched ==
    WhiteSpace \cup Letter \cup Digit
        \cup {"<", ">", "/", "(", ")", "{", "}", "+", "-", "*", "=", "\"", "'",
              "_"}

\* the cursor is at a character that no rule matches
AtUnmatched == Scanning /\ Len(Cursor) > 0 /\ Cursor[1] \notin Matched

\* C15: a character at the cursor that no rule matches is consumed alone,
\* pushes no token and raises nothing, and the output is the output for
\* the input with that character replaced by one space.
UnmatchedCharacterDropped ==
    /\ [][AtUnmatched
          => /\ tokens' = tokens
             /\ src' = SubSeq(Cursor, 2, Len(Cursor))
             /\ pc' = "scan"]_vars
    /\ [](AtUnmatched
            => tokenize([source EXCEPT ![CursorPos] = " "]) = tokenize(source))
    /\ [](pc = "done" => tokens = tokenize(source))

\* a run has returned a token scanned after a ',', '[', '!' or ';' that was
\* at the cursor
UnmatchedWitness ==
    /\ pc = "done"
    /\ \E p \in 1..Len(source) :
          /\ source[p] \in {",", "[", "!", ";"}
          /\ \A k \in 1..(p - 1) : source[k] \in Letter
          /\ \E i \in 1..Len(tokens) : spans[i].from = p + 1

----------------------------------------------------------------------------
(* C16 *)

\* C16: at '<', a '/' right after it makes one EndBracket("</") and both
\* characters are consumed; anything else, or the end of the input, makes
\* one OpenBracket("<") and only the '<' is consumed.
LtScan ==
    /\ [][(Scanning /\ At(Cursor, 0) = "<" /\ At(Cursor, 1) = "/")
          => /\ tokens' = Append(tokens, Token("</", TokenType.EndBracket))
             /\ src' = SubSeq(Cursor, 3, Len(Cursor))]_vars
    /\ [][(Scanning /\ At(Cursor, 0) = "<" /\ At(Cursor, 1) # "/")
          => /\ tokens' = Append(tokens, Token("<", TokenType.OpenBracket))
             /\ src' = SubSeq(Cursor, 2, Len(Cursor))]_vars
    /\ []((pc = "done" /\ source = <<"<", "/">>)
            => tokens = <<Token("</", TokenType.EndBracket)>>)
    /\ []((pc = "done" /\ source = <<"<">>)
            => tokens = <<Token("<", TokenType.OpenBracket)>>)

\* a run has returned an OpenBracket for a '<' that another character
\* follows and an EndBracket for a "</"
LtWitness ==
    /\ pc = "done"
    /\ \E i \in 1..Len(tokens) :
          /\ tokens[i] = Token("<", TokenType.OpenBracket)
          /\ spans[i].to < Len(source)
          /\ source[spans[i].to + 1] # "/"
    /\ \E i \in 1..Len(tokens) : tokens[i] = Token("</", TokenType.EndBracket)

----------------------------------------------------------------------------
(* C17 *)

\* the one lexeme of each punctuation type
FixedLexeme(type) ==
    CASE type = TokenType.OpenBracket    -> {"<"}
      [] type = TokenType.EndBracket     -> {"</"}
      [] type = TokenType.CloseBracket   -> {">"}
      [] type = TokenType.SelfClosingTag -> {"/>"}
      [] type = TokenType.OpenParen      -> {"("}
      [] type = TokenType.CloseParen     -> {")"}
      [] type = TokenType.OpenBrace      -> {"{"}
      [] type = TokenType.CloseBrace     -> {"}"}
      [] type = TokenType.Equals         -> {"="}
      [] type = TokenType.BinaryOperator -> {"+", "-", "*", "/"}
      [] OTHER                           -> {}

PunctuationTypes == {type \in 0..33 : FixedLexeme(type) # {}}

\* the types the reserved words name
KeywordTypes == {KeywordOf(w) : w \in ReservedWords}

\* C17: the lexeme of every token fits its type: each punctuation type has
\* its fixed lexeme (BinaryOperator one of + - * /), a keyword type has its
\* reserved word, a Number or Identifier is a non-empty run of letters,
\* digits, '_' and '-' that does not begin with '-', and only a
\* StringLiteral may be empty.
LexemeFitsType ==
    \A i \in 1..Len(tokens) :
        LET type == tokens[i].type
            text == tokens[i].value
        IN  /\ type \in PunctuationTypes => text \in FixedLexeme(type)
            /\ type \in KeywordTypes
                 => \E w \in ReservedWords :
                        KeywordOf(w) = type /\ text = Join(w)
            /\ type \in {TokenType.Number, TokenType.Identifier}
                 => /\ text = Join(Lexeme(i))
                    /\ Len(Lexeme(i)) > 0
                    /\ \A k \in 1..Len(Lexeme(i)) : Lexeme(i)[k] \in WordChar
                    /\ Lexeme(i)[1] # "-"
            /\ type # TokenType.StringLiteral => Len(text) > 0

\* a run has returned an empty string literal after an identifier that
\* holds a '-'
LexemeWitness ==
    /\ pc = "done"
    /\ \E i \in 1..Len(tokens) : tokens[i] = Token("", TokenType.StringLiteral)
    /\ \E i \in WordTokens :
          /\ tokens[i].type = TokenType.Identifier
          /\ \E k \in 1..Len(Lexeme(i)) : Lexeme(i)[k] = "-"

====
